---- MODULE Spec2Model ----
(***************************************************************************)
(* Model of core/numerics/fields/fields.py: the Field container and its   *)
(* CellField / FaceField / NodeField variants.                             *)
(*                                                                         *)
(* A caller holds MaxFields names (slots); each is unbound or bound to a   *)
(* Field object.  A Field object holds _num_vars, _default and a REFERENCE *)
(* _values to a numpy array; the arrays live in `heap`, so that two        *)
(* objects naming the same array are visible as such.  An array no object  *)
(* refers to is released (reference counting) and reads <<>> in `heap`.    *)
(*                                                                         *)
(* Python index i of an array is position i + 1 of the sequence.           *)
(*                                                                         *)
(* `last` is what the last call left the caller with; `call` is a history  *)
(* variable holding the arguments of the last call in the specifications   *)
(* that trace them.                                                        *)
(*                                                                         *)
(* Exceptions are recorded under the specification's names:               *)
(*   IndexOutOfRange    IndexError (fields.py:97, numpy indexing)          *)
(*   TypeMismatch       TypeError  (fields.py:120,126,143,194,205,222,233, *)
(*                                  240,251)                               *)
(*   IncompatibleFields TypeError  (fields.py:115,187,215)                 *)
(*   InvalidCallable    TypeError  (fields.py:76,92)                       *)
(*   InvalidSize        ValueError (numpy.full, negative dimension)        *)
(*   ValueError         ValueError (min() of an empty list, fields.py:94;  *)
(*                                  numpy.vectorize on a size 0 array)     *)
(***************************************************************************)
EXTENDS Integers, Sequences, FiniteSets, TLC

VARIABLES fields, heap, last, call

vars == <<fields, heap, last, call>>

\* ---------------------------------------------------------------- bounds
\* The names the caller binds fields to.
MaxFields == 2
\* The largest count the caller constructs a field with.
MaxCount == 1
\* The largest count of a field a specification starts from.
MaxLen == 2
\* The payloads of the values are -MaxVal..MaxVal.
MaxVal == 1
\* The longest index list passed to at().
MaxIdx == 2

FieldIds == 1..MaxFields
Refs == 1..MaxFields
Vals == (0 - MaxVal)..MaxVal
Counts == (0 - 1)..MaxCount
\* The indexes and index lists tried on fields of count up to n.
Indexes(n) == (0 - n - 1)..n
IndexLists(n) == UNION {[1..m -> (0 - 1)..n] : m \in 0..MaxIdx}
CallerIndexes == Indexes(MaxCount)
CallerIndexLists == IndexLists(MaxCount)
DrawnIndexes == Indexes(MaxLen)
DrawnIndexLists == IndexLists(MaxLen)

\* ------------------------------------------------------- variable kinds
\* core.numerics.fields.variables is imported, not defined, by fields.py: a
\* Variable is a value with a `type` tag and a payload; its operators are the
\* ones the specification's Variable kind interface lists.
Kinds == {"scalar", "vector", "tensor"}

FieldKinds == {"scalar", "vector"}

Var(k, n) == [type |-> k, v |-> n]

Variables == [type : Kinds, v : Vals]

Defaults == [type : FieldKinds, v : {0}]

\* A plain Python number: not an instance of Variable.
Numbers == [type : {"number"}, v : {MaxVal}]

\* A Field object given as an operand, by the name it is bound to.
FieldArg(k) == [type |-> "field", v |-> k]

\* What a caller may pass where a Variable, a Scalar or a Field is expected.
SomeVariables == [type : FieldKinds, v : Vals] \cup {Var("tensor", MaxVal)}

Operands == SomeVariables \cup Numbers \cup {FieldArg(j) : j \in FieldIds}

isVariable(x) == x.type \in Kinds

isScalar(x) == x.type = "scalar"

isField(x) == x.type = "field"

InRange(vals) == \A i \in 1..Len(vals) : vals[i].v \in Vals

VarAdd(x, y) == Var(x.type, x.v + y.v)

VarSub(x, y) == Var(x.type, x.v - y.v)

VarMul(x, s) == Var(x.type, x.v * s.v)

\* Exact quotients only: Div is taken where the divisor divides the payload.
Quot(a, b) == IF b < 0 THEN (0 - a) \div (0 - b) ELSE a \div b

Divides(b, a) == b # 0 /\ (IF a < 0 THEN 0 - a ELSE a) % (IF b < 0 THEN 0 - b ELSE b) = 0

VarDiv(x, s) == Var(x.type, Quot(x.v, s.v))

VarNeg(x) == Var(x.type, 0 - x.v)

VarAbs(x) == Var(x.type, IF x.v < 0 THEN 0 - x.v ELSE x.v)

\* ------------------------------------------------- caller's callables
\* What a caller may pass as `func`: "next" returns a Variable of the kind it
\* was given (the next payload, cyclically), "other" a Variable of another
\* kind, "none" returns None; "notcallable" is an object that is no function.
Callables == {"next", "other", "none"}

Funcs == Callables \cup {"notcallable"}

callable(f) == f \in Callables

Succ(n) == IF n = MaxVal THEN 0 - MaxVal ELSE n + 1

OtherKind(k) == IF k = "scalar" THEN "vector" ELSE "scalar"

Call(f, x) ==
    CASE f = "next" -> Var(x.type, Succ(x.v))
      [] f = "other" -> Var(OtherKind(x.type), x.v)
      [] f = "none" -> [type |-> "NoneType", v |-> 0]

\* ------------------------------------------------------------- classes
Classes == {"CellField", "FaceField", "NodeField"}

NoField == [cls |-> "none", num_vars |-> 0, default |-> Var("scalar", 0), values |-> 0]

Live(f) == f.cls # "none"

type(f) == f.default.type

domain(f) ==
    CASE f.cls = "CellField" -> "cell"
      [] f.cls = "FaceField" -> "face"
      [] f.cls = "NodeField" -> "node"

\* ---------------------------------------------------------- the heap
\* numpy.full asked for one element too many.
np_full_one_more(n, d) == [i \in 1..(n + 1) |-> d]

np_full(n, d) == [i \in 1..n |-> d]

\* The array a name can be bound to anew: one no other name refers to.
NewRef(f, k) == CHOOSE r \in Refs : \A j \in FieldIds \ {k} : f[j].values # r

\* Reference counting: an array no field refers to is released.
Collect(f, h) ==
    [r \in Refs |-> IF \E k \in FieldIds : Live(f[k]) /\ f[k].values = r THEN h[r] ELSE <<>>]

Values(k) == heap[fields[k].values]

\* numpy indexing: index i of an array of n elements is valid iff -n <= i < n,
\* a negative index counting from the end.
IndexOk(n, i) == (0 - n) <= i /\ i < n

Pos(n, i) == IF i < 0 THEN i + n + 1 ELSE i + 1

Min(S) == CHOOSE x \in S : \A y \in S : x <= y

Max(S) == CHOOSE x \in S : \A y \in S : x >= y

Range(s) == {s[i] : i \in 1..Len(s)}

\* -------------------------------------------------- results and traces
\* `out` is what a query returned; for for_each it keeps the callable that was
\* passed, for at whether the list held an index outside [0, count).
Result(op, status, out) == [op |-> op, status |-> status, out |-> out]

Untraced == [traced |-> FALSE, args |-> <<>>]

Traced(args) == [traced |-> TRUE, args |-> args]

Trace(args) == call' = IF call.traced THEN Traced(args) ELSE call

Return(op, out, args) ==
    /\ last' = Result(op, "ok", out)
    /\ Trace(args)

Raise(op, status, args) ==
    /\ last' = Result(op, status, 0)
    /\ Trace(args)
    /\ UNCHANGED <<fields, heap>>

\* ------------------------------------------------------- construction
\* Field.__init__ through a variant's constructor.
Field__init__(cls, num_vars, default, ref) ==
    [cls |-> cls, num_vars |-> num_vars, default |-> default, values |-> ref]

\* `name_k = cls(n, d)`
Construct(k, cls, n, d) ==
    IF n < 0
    THEN Raise("new", "InvalidSize", <<k, n>>)
    ELSE LET r == NewRef(fields, k)
             f == [fields EXCEPT ![k] = Field__init__(cls, n, d, r)]
         IN /\ fields' = f
            /\ heap' = Collect(f, [heap EXCEPT ![r] = np_full(n, d)])
            /\ Return("new", 0, <<k, n>>)

\* ------------------------------------------------- queries and writes
\* Field.__getitem__
Get(k, i) ==
    /\ Live(fields[k])
    /\ IF IndexOk(Len(Values(k)), i)
       THEN /\ Return("get", Values(k)[Pos(Len(Values(k)), i)], <<k, i>>)
            /\ UNCHANGED <<fields, heap>>
       ELSE Raise("get", "IndexOutOfRange", <<k, i>>)

\* Field.__setitem__
Set(k, i, value) ==
    /\ Live(fields[k])
    /\ IF value.type # fields[k].default.type
       THEN Raise("set", "TypeMismatch", <<k, i, value>>)
       ELSE IF ~IndexOk(Len(Values(k)), i)
       THEN Raise("set", "IndexOutOfRange", <<k, i, value>>)
       ELSE /\ heap' = [heap EXCEPT ![fields[k].values][Pos(Len(Values(k)), i)] = value]
            /\ Return("set", 0, <<k, i, value>>)
            /\ UNCHANGED fields

\* The body of the loops of for_each and at: one call of func on slot i
\* (a Python index), written back when it is a Variable of the field's kind.
Visit_any_variable(vals, i, f, kind) ==
    LET res == Call(f, vals[i + 1])
    IN IF isVariable(res) THEN [vals EXCEPT ![i + 1] = res] ELSE vals

Visit(vals, i, f, kind) ==
    LET res == Call(f, vals[i + 1])
    IN IF isVariable(res) /\ res.type = kind THEN [vals EXCEPT ![i + 1] = res] ELSE vals

RECURSIVE Loop(_, _, _, _)
Loop(vals, idxs, f, kind) ==
    IF idxs = <<>> THEN vals
    ELSE Loop(Visit(vals, Head(idxs), f, kind), Tail(idxs), f, kind)

range(n) == [i \in 1..n |-> i - 1]

\* Field.for_each
ForEach(k, f) ==
    /\ Live(fields[k])
    /\ IF ~callable(f)
       THEN /\ last' = Result("for_each", "InvalidCallable", f)
            /\ Trace(<<k, f>>)
            /\ UNCHANGED <<fields, heap>>
       ELSE /\ heap' = [heap EXCEPT ![fields[k].values] =
                            Loop(Values(k), range(fields[k].num_vars), f, type(fields[k]))]
            /\ Return("for_each", f, <<k, f>>)
            /\ UNCHANGED fields

\* The range check of Field.at: the exception it raises, or "ok".
check_indexes(idxs, n) ==
    IF idxs = <<>> THEN "ValueError"
    ELSE IF Min(Range(idxs)) < 0 \/ Max(Range(idxs)) >= n THEN "IndexOutOfRange"
    ELSE "ok"

\* A loop over the distinct indexes of the list, in ascending order.
RECURSIVE Ascending(_)
Ascending(S) == IF S = {} THEN <<>> ELSE <<Min(S)>> \o Ascending(S \ {Min(S)})

at_loop_each_once(vals, idxs, f, kind) == Loop(vals, Ascending(Range(idxs)), f, kind)

\* The loop of Field.at.
at_loop(vals, idxs, f, kind) == Loop(vals, idxs, f, kind)

\* The range check made index by index inside the loop: the slots before the
\* first index out of range have been visited when it raises.
RECURSIVE InRangePrefix(_, _)
InRangePrefix(idxs, n) ==
    IF idxs = <<>> \/ Head(idxs) < 0 \/ Head(idxs) >= n THEN <<>>
    ELSE <<Head(idxs)>> \o InRangePrefix(Tail(idxs), n)

at_values_check_in_loop(vals, idxs, f, kind, n) ==
    at_loop(vals, InRangePrefix(idxs, n), f, kind)

\* The contents Field.at leaves the array with: the checks come first, and the
\* loop runs only once they have passed.
at_values(vals, idxs, f, kind, n) ==
    IF check_indexes(idxs, n) = "ok" THEN at_loop(vals, idxs, f, kind) ELSE vals

\* Whether the list holds an index outside [0, n): recorded with the result.
Outside(idxs, n) == \E p \in 1..Len(idxs) : idxs[p] < 0 \/ idxs[p] >= n

\* Field.at
At(k, idxs, f) ==
    /\ Live(fields[k])
    /\ IF ~callable(f)
       THEN /\ last' = Result("at", "InvalidCallable", Outside(idxs, fields[k].num_vars))
            /\ Trace(<<k, idxs, f>>)
            /\ UNCHANGED <<fields, heap>>
       ELSE /\ heap' = [heap EXCEPT ![fields[k].values] =
                            at_values(Values(k), idxs, f, type(fields[k]), fields[k].num_vars)]
            /\ last' = Result("at", check_indexes(idxs, fields[k].num_vars),
                              Outside(idxs, fields[k].num_vars))
            /\ Trace(<<k, idxs, f>>)
            /\ UNCHANGED fields

check_fields_compatible_no_domain(self, other) ==
    IF self.num_vars # other.num_vars THEN "ValueError"
    ELSE IF type(self) # type(other) THEN "TypeError"
    ELSE "ok"

\* Field._check_fields_compatible: the exception it raises, or "ok".
check_fields_compatible(self, other) ==
    IF self.num_vars # other.num_vars THEN "ValueError"
    ELSE IF type(self) # type(other) THEN "TypeError"
    ELSE IF domain(self) # domain(other) THEN "TypeError"
    ELSE "ok"

\* The array Field.assign leaves self._values bound to, given a compatible
\* field: `self._values = other._values`.
assign_ref(f, k, j) == f[j].values

\* Field.assign
Assign(k, other) ==
    /\ Live(fields[k])
    /\ isField(other) => Live(fields[other.v])
    /\ IF isField(other)
       THEN IF check_fields_compatible(fields[k], fields[other.v]) # "ok"
            THEN Raise("assign", "IncompatibleFields", <<k, other>>)
            ELSE LET f == [fields EXCEPT ![k].values = assign_ref(fields, k, other.v)]
                 IN /\ fields' = f
                    /\ heap' = Collect(f, heap)
                    /\ Return("assign", 0, <<k, other>>)
       ELSE IF isVariable(other)
       THEN IF other.type # type(fields[k])
            THEN Raise("assign", "TypeMismatch", <<k, other>>)
            ELSE LET r == NewRef(fields, k)
                     f == [fields EXCEPT ![k].values = r]
                 IN /\ fields' = f
                    /\ heap' = Collect(f, [heap EXCEPT ![r] = np_full(fields[k].num_vars, other)])
                    /\ Return("assign", 0, <<k, other>>)
       ELSE Raise("assign", "TypeMismatch", <<k, other>>)

\* --------------------------------------------------------- arithmetic
\* `name_r = <expression>`, for any name r of the caller: a new Field object
\* of self's class, built by self.__class__(self._num_vars, self._default),
\* whose _values is then bound to the array `vals` the numpy expression
\* produced.
result_field(k, ref) ==
    Field__init__(fields[k].cls, fields[k].num_vars, fields[k].default, ref)

\* The result given self's own array, as an in-place operator would.
result_ref_shared(k, r) == fields[k].values

result_ref(k, r) == NewRef(fields, r)

Bind(op, k, other, vals) ==
    /\ InRange(vals)
    /\ \E r \in FieldIds :
         LET ref == result_ref(k, r)
             f == [fields EXCEPT ![r] = result_field(k, ref)]
         IN /\ fields' = f
            /\ heap' = Collect(f, [heap EXCEPT ![ref] = vals])
            /\ Return(op, 0, <<k, other, r>>)

\* numpy's element-wise operators on object arrays, and numpy.vectorize.
\* The operator of the Variables an operation applies to each element.
VarBinary(op, x, y) ==
    CASE op = "add" -> VarAdd(x, y)
      [] op = "sub" -> VarSub(x, y)
      [] op = "mul" -> VarMul(x, y)
      [] op = "div" -> VarDiv(x, y)

VarUnary(op, x) ==
    CASE op = "neg" -> VarNeg(x)
      [] op = "abs" -> VarAbs(x)

np_binary(op, xs, ys) == [i \in 1..Len(xs) |-> VarBinary(op, xs[i], ys[i])]

np_broadcast(op, xs, y) == [i \in 1..Len(xs) |-> VarBinary(op, xs[i], y)]

np_unary(op, xs) == [i \in 1..Len(xs) |-> VarUnary(op, xs[i])]

\* The shared body of Field.__add__ and Field.__sub__.
Binary(op, k, other) ==
    /\ Live(fields[k])
    /\ isField(other) => Live(fields[other.v])
    /\ IF isField(other)
       THEN IF check_fields_compatible(fields[k], fields[other.v]) # "ok"
            THEN Raise(op, "IncompatibleFields", <<k, other, 0>>)
            ELSE Bind(op, k, other, np_binary(op, Values(k), Values(other.v)))
       ELSE IF isVariable(other)
       THEN IF other.type # fields[k].default.type
            THEN Raise(op, "TypeMismatch", <<k, other, 0>>)
            ELSE IF Len(Values(k)) = 0
            THEN Raise(op, "ValueError", <<k, other, 0>>)
            ELSE Bind(op, k, other, np_broadcast(op, Values(k), other))
       ELSE Raise(op, "TypeMismatch", <<k, other, 0>>)

\* Field.__add__
Add(k, other) == Binary("add", k, other)

\* Field.__sub__
Sub(k, other) == Binary("sub", k, other)

accepts_scalar_or_number(other) == isScalar(other) \/ other.type = "number"

\* The operand test of Field.__mul__ and Field.__truediv__.
accepts_scalar(other) == isScalar(other)

\* Field.__mul__
Mul(k, other) ==
    /\ Live(fields[k])
    /\ isField(other) => Live(fields[other.v])
    /\ IF ~accepts_scalar(other)
       THEN Raise("mul", "TypeMismatch", <<k, other, 0>>)
       ELSE Bind("mul", k, other, np_broadcast("mul", Values(k), other))

\* Field.__truediv__ (for the divisors that divide every payload exactly)
Div(k, other) ==
    /\ Live(fields[k])
    /\ isField(other) => Live(fields[other.v])
    /\ IF ~accepts_scalar(other)
       THEN Raise("div", "TypeMismatch", <<k, other, 0>>)
       ELSE /\ \A i \in 1..Len(Values(k)) : Divides(other.v, Values(k)[i].v)
            /\ Bind("div", k, other, np_broadcast("div", Values(k), other))

\* Field.__neg__
Neg(k) ==
    /\ Live(fields[k])
    /\ Bind("neg", k, 0, np_unary("neg", Values(k)))

\* Field.__abs__
Abs(k) ==
    /\ Live(fields[k])
    /\ Bind("abs", k, 0, np_unary("abs", Values(k)))

\* ------------------------------------------------------ specifications
\* Spec: a caller with MaxFields names and every operation, untraced.
Init ==
    /\ fields = [k \in FieldIds |-> NoField]
    /\ heap = [r \in Refs |-> <<>>]
    /\ last = Result("init", "ok", 0)
    /\ call = Untraced

Next ==
    \/ \E k \in FieldIds, cls \in Classes, n \in Counts, d \in Defaults : Construct(k, cls, n, d)
    \/ \E k \in FieldIds, i \in CallerIndexes : Get(k, i)
    \/ \E k \in FieldIds, i \in CallerIndexes, value \in SomeVariables : Set(k, i, value)
    \/ \E k \in FieldIds, f \in Funcs : ForEach(k, f)
    \/ \E k \in FieldIds, idxs \in CallerIndexLists, f \in Funcs : At(k, idxs, f)
    \/ \E k \in FieldIds, other \in Operands : Assign(k, other)
    \/ \E k \in FieldIds, other \in Operands : Add(k, other)
    \/ \E k \in FieldIds, other \in Operands : Sub(k, other)
    \/ \E k \in FieldIds, other \in Operands : Mul(k, other)
    \/ \E k \in FieldIds, other \in Operands : Div(k, other)
    \/ \E k \in FieldIds : Neg(k)
    \/ \E k \in FieldIds : Abs(k)

Spec == Init /\ [][Next]_vars

\* SpecStore: one field as construction and set() calls leave it (of any
\* class, kind and count up to MaxLen, holding any payloads), its queries and
\* in-place writes, traced.
InitStore ==
    /\ \E f \in [cls : Classes, num_vars : 0..MaxLen, default : Defaults, values : {1}] :
         \E vals \in [1..f.num_vars -> [type : {f.default.type}, v : Vals]] :
            /\ fields = [k \in FieldIds |-> IF k = 1 THEN f ELSE NoField]
            /\ heap = [r \in Refs |-> IF r = 1 THEN vals ELSE <<>>]
    /\ last = Result("init", "ok", 0)
    /\ call = Traced(<<>>)

NextStore ==
    \/ \E k \in FieldIds, i \in DrawnIndexes : Get(k, i)
    \/ \E k \in FieldIds, f \in Funcs : ForEach(k, f)
    \/ \E k \in FieldIds, idxs \in DrawnIndexLists, f \in Funcs : At(k, idxs, f)

SpecStore == InitStore /\ [][NextStore]_vars

\* SpecArith: one field and the fields arithmetic derives from it, traced.
NextArith ==
    \/ \E k \in FieldIds, other \in Operands : Add(k, other)
    \/ \E k \in FieldIds, other \in Operands : Sub(k, other)
    \/ \E k \in FieldIds, other \in Operands : Mul(k, other)
    \/ \E k \in FieldIds, other \in Operands : Div(k, other)
    \/ \E k \in FieldIds : Neg(k)
    \/ \E k \in FieldIds : Abs(k)
    \/ \E k \in FieldIds, f \in {"next"} : ForEach(k, f)

SpecArith == InitStore /\ [][NextArith]_vars

\* SpecCompat: two fields as constructed, of any two shapes, and the
\* operations that take a field operand, traced.
InitCompat ==
    /\ fields \in [FieldIds -> [cls : Classes, num_vars : 0..MaxLen, default : Defaults,
                                values : Refs]]
    /\ \A k \in FieldIds : fields[k].values = k
    /\ heap = [r \in Refs |-> np_full(fields[r].num_vars, fields[r].default)]
    /\ last = Result("init", "ok", 0)
    /\ call = Traced(<<>>)

NextCompat ==
    \/ \E k, j \in FieldIds : Add(k, FieldArg(j))
    \/ \E k, j \in FieldIds : Sub(k, FieldArg(j))
    \/ \E k, j \in FieldIds : Assign(k, FieldArg(j))

SpecCompat == InitCompat /\ [][NextCompat]_vars

\* ------------------------------------------------------------- claims
Bound == {k \in FieldIds : Live(fields[k])}

Shape(f) == <<f.cls, f.num_vars, f.default>>

\* C1: a write to one field (set, for_each, at, assign) never changes what
\* another field holds: at most the written field's values differ after it.
C1_WritesStayInOneField ==
    [][last'.op \in {"set", "for_each", "at", "assign"} =>
          \E k \in FieldIds : \A c \in Bound \ {k} :
              heap'[fields'[c].values] = heap[fields[c].values]]_vars

\* C2: a call that fails leaves every field and every slot as it was, and
\* at() given a callable and a list holding an index outside [0, count) fails
\* with IndexOutOfRange.
C2_FailedCallsChangeNothing ==
    [][/\ last'.status # "ok" => (fields' = fields /\ heap' = heap)
       /\ (last'.op = "at" /\ last'.out = TRUE) =>
              last'.status \in {"IndexOutOfRange", "InvalidCallable"}]_vars

C2_Witness ==
    /\ last.op = "at"
    /\ last.status = "IndexOutOfRange"
    /\ \E k \in Bound : \E i \in 1..Len(Values(k)) : Values(k)[i] # fields[k].default

\* C3: every stored value is of the kind of its field's default.
C3_KindHomogeneity ==
    \A k \in Bound : \A i \in 1..Len(Values(k)) : Values(k)[i].type = type(fields[k])

C3_Witness ==
    /\ last.op = "for_each"
    /\ last.status = "ok"
    /\ last.out = "other"
    /\ \E k \in Bound : fields[k].num_vars > 0

\* C4: no field of count zero or less exists.
C4_NoFieldWithoutSlots == \A k \in Bound : fields[k].num_vars >= 1

\* C10: the number of stored values of every field is its count, and no
\* operation changes the class, the count or the default of a field: a call
\* that binds a name (a constructor, an arithmetic result) leaves the fields
\* of the other names as they were, and no other call changes any.
C10_CountAndDomainFixed ==
    [][/\ \A k \in FieldIds : Live(fields'[k]) =>
              /\ Len(heap'[fields'[k].values]) = fields'[k].num_vars
              /\ fields'[k].num_vars >= 0
       /\ \E r \in FieldIds : \A k \in FieldIds \ {r} : Shape(fields'[k]) = Shape(fields[k])
       /\ last'.op \in {"get", "set", "for_each", "at", "assign"} =>
              \A k \in FieldIds : Shape(fields'[k]) = Shape(fields[k])]_vars

C10_Witness ==
    /\ last.op = "assign"
    /\ last.status = "ok"
    /\ \A k \in FieldIds : Live(fields[k]) /\ fields[k].num_vars = MaxCount
    /\ fields[1].values = fields[2].values

\* C5: get(index) fails with IndexOutOfRange for every index outside
\* [0, count), and returns the value stored at the index otherwise.
C5_GetRejectsEveryIndexOutside ==
    last.op = "get" =>
        LET k == call.args[1]
            i == call.args[2]
        IN IF 0 <= i /\ i < fields[k].num_vars
           THEN last.status = "ok" /\ last.out = Values(k)[i + 1]
           ELSE last.status = "IndexOutOfRange"

\* What one call of the transform leaves in a slot holding x, in a field of
\* the given kind: its result if that is a value of the kind, else x.
Once(f, x, kind) ==
    IF f = "next" /\ x.type = kind THEN [type |-> x.type, v |-> IF x.v = MaxVal THEN 0 - MaxVal ELSE x.v + 1]
    ELSE x

RECURSIVE Times(_, _, _, _)
Times(f, x, kind, n) == IF n = 0 THEN x ELSE Times(f, Once(f, x, kind), kind, n - 1)

Occurrences(idxs, i) == Cardinality({p \in 1..Len(idxs) : idxs[p] = i})

\* C9 as claimed: a successful at() applies the transform exactly once to each
\* index of the list and changes no other slot.
C9_EachIndexOnce ==
    [][(last'.op = "at" /\ last'.status = "ok") =>
          LET k == call'.args[1]
              idxs == call'.args[2]
              f == call'.args[3]
          IN \A i \in 0..(fields[k].num_vars - 1) :
                 heap'[fields'[k].values][i + 1] =
                     IF i \in Range(idxs)
                     THEN Once(f, Values(k)[i + 1], type(fields[k]))
                     ELSE Values(k)[i + 1]]_vars

\* C9 as amended: a successful at() applies the transform to an index once
\* for each occurrence of the index in the list, and changes no other slot.
C9_EachOccurrenceOnce ==
    [][(last'.op = "at" /\ last'.status = "ok") =>
          LET k == call'.args[1]
              idxs == call'.args[2]
              f == call'.args[3]
          IN /\ fields' = fields
             /\ Len(heap'[fields'[k].values]) = fields[k].num_vars
             /\ \A i \in 0..(fields[k].num_vars - 1) :
                    heap'[fields'[k].values][i + 1] =
                        Times(f, Values(k)[i + 1], type(fields[k]), Occurrences(idxs, i))]_vars

C9_Witness ==
    /\ last.op = "at"
    /\ last.status = "ok"
    /\ call.args[2] = <<1, 1>>
    /\ call.args[3] = "next"
    /\ fields[call.args[1]].num_vars = 2
    /\ Values(call.args[1])[1].v # Values(call.args[1])[2].v

\* Two fields differ in count, in variable kind or in domain (the variants
\* are one class for each domain).
Differ(a, b) ==
    \/ a.num_vars # b.num_vars
    \/ a.default.type # b.default.type
    \/ a.cls # b.cls

\* C6: add, subtract and assign with a field operand fail with
\* IncompatibleFields exactly when the two fields differ in count, kind or
\* domain, and whether they fail does not depend on which of the two is self.
C6_IncompatibleIffDiffer ==
    [][(last'.op \in {"add", "sub", "assign"} /\ call'.args[2].type = "field") =>
          LET a == fields[call'.args[1]]
              b == fields[call'.args[2].v]
          IN /\ (last'.status = "IncompatibleFields") = Differ(a, b)
             /\ (last'.status = "IncompatibleFields") = (check_fields_compatible(b, a) # "ok")
             /\ last'.status \in {"IncompatibleFields", "ok"}]_vars

C6_Witness ==
    /\ last.op = "add"
    /\ last.status = "IncompatibleFields"
    /\ fields[1].num_vars = fields[2].num_vars
    /\ fields[1].default = fields[2].default
    /\ fields[1].cls = "CellField"
    /\ fields[2].cls = "NodeField"

ArithOps == {"add", "sub", "mul", "div", "neg", "abs"}

\* C7: an arithmetic operation changes no field it does not bind: every other
\* name keeps its field and its field's values; the field it returns has
\* self's class, count and default, count values, and an array no other
\* field refers to, so that a later write to any field changes no other.
C7_ArithmeticLeavesOperands ==
    [][/\ last'.op \in ArithOps =>
              LET k == call'.args[1]
                  r == call'.args[3]
              IN /\ \A j \in FieldIds \ {r} :
                        /\ fields'[j] = fields[j]
                        /\ Live(fields[j]) => heap'[fields[j].values] = heap[fields[j].values]
                 /\ (last'.status = "ok") = (r \in FieldIds)
                 /\ r \in FieldIds =>
                        /\ Shape(fields'[r]) = Shape(fields[k])
                        /\ Len(heap'[fields'[r].values]) = fields[k].num_vars
                        /\ \A j \in FieldIds \ {r} : fields'[j].values # fields'[r].values
       /\ last'.op = "for_each" =>
              \A j \in Bound \ {call'.args[1]} : heap'[fields'[j].values] = heap[fields[j].values]]_vars

C7_Witness ==
    /\ last.op = "sub"
    /\ last.status = "ok"
    /\ call.args = <<1, FieldArg(1), 2>>
    /\ fields[1].num_vars = 2
    /\ Values(1)[1].v = 1
    /\ Values(2)[1].v = 0

\* The payloads of the result of a scaling by the payload s.
Scaled(op, xs, ys, s) ==
    /\ Len(ys) = Len(xs)
    /\ \A i \in 1..Len(xs) :
          /\ ys[i].type = xs[i].type
          /\ IF op = "mul" THEN ys[i].v = xs[i].v * s ELSE ys[i].v * s = xs[i].v

\* C8 as claimed: scaling accepts a plain number, and fails with TypeMismatch
\* given a field or a Vector or Tensor value.
C8_PlainNumberAccepted ==
    [][last'.op \in {"mul", "div"} =>
          LET k == call'.args[1]
              s == call'.args[2]
              r == call'.args[3]
          IN /\ s.type = "number" =>
                    /\ last'.status = "ok"
                    /\ Scaled(last'.op, Values(k), heap'[fields'[r].values], s.v)
             /\ s.type \in {"field", "vector", "tensor"} =>
                    last'.status = "TypeMismatch"]_vars

\* C8 as amended: scaling accepts a Scalar value s and returns a field of the
\* values scaled by s; given anything else (a field, a Vector or Tensor value,
\* a plain number) it fails with TypeMismatch.
C8_ScalarValueAccepted ==
    [][last'.op \in {"mul", "div"} =>
          LET k == call'.args[1]
              s == call'.args[2]
              r == call'.args[3]
          IN IF s.type = "scalar"
             THEN /\ last'.status = "ok"
                  /\ r \in FieldIds
                  /\ Scaled(last'.op, Values(k), heap'[fields'[r].values], s.v)
             ELSE /\ last'.status = "TypeMismatch"
                  /\ UNCHANGED <<fields, heap>>]_vars

C8_Witness ==
    /\ last.op = "mul"
    /\ last.status = "ok"
    /\ call.args[1] = 1
    /\ call.args[2] = Var("scalar", 0 - 1)
    /\ call.args[3] = 2
    /\ fields[1].num_vars = 2
    /\ type(fields[1]) = "vector"
    /\ Values(1)[1].v = 1
    /\ Values(2)[1].v = 0 - 1

====
